---- MODULE Spec2Model ----
(***************************************************************************)
(* A model of car_truck.py: a ParkingLot of `capacity` spots protected by  *)
(* one reentrant lock, and Car / Truck vehicles that request and yield      *)
(* one spot, respectively two adjacent spots.                               *)
(*                                                                          *)
(* Threads call the public operations concurrently.  Every statement of a  *)
(* critical section that reads or writes shared state is one step, so that *)
(* the two writes of a truck's commit and release are separate steps.       *)
(* Which operation a thread called, and with which arguments (the vehicle  *)
(* object and the yield index), is private to the thread until it enters    *)
(* the critical section; both are drawn when the lock is acquired.          *)
(***************************************************************************)
EXTENDS Integers, FiniteSets, Sequences, TLC

\* ---- bounds of the model ----
MaxCapacity == 5
NumCars == 2
NumTrucks == 1
NumThreads == 2
\* the largest lot of the specification that keeps what each caller got back
CallerCapacity == 2
\* the largest lot of the specification with a fair lock
FairCapacity == 2

\* ---- values ----
\* Python's None, for spot_index, for a find that found nothing and for the
\* value returned by a failed request_spot; never a spot index or an argument.
None == -2
NoThread == 0

Threads == 1..NumThreads

\* the objects made by create_car and create_truck; a thread that is not in a
\* call has no self
Car(i) == <<"CAR", i>>
Truck(i) == <<"TRUCK", i>>
NoVehicle == <<"NONE", 0>>
\* the vehicles n cars and m trucks
Fleet(n, m) == {Car(i) : i \in 1..n} \cup {Truck(i) : i \in 1..m}

\* Vehicle.vehicle_type, fixed by the subclass constructor
vehicle_type(v) == v[1]

\* the messages printed by the failure branches; a failed request_spot for
\* lack of room prints nothing
AlreadyHeld == "already parked"
InvalidIndex == "Invalid spot index"
NotHeld == "is not parked"
IndexMismatch == "is parked at, not"
NoMessage == "none"

VARIABLES
    fleet,        \* the vehicles created for the lot
    capacity,     \* ParkingLot.capacity
    spots,        \* ParkingLot.spots: 0..capacity-1 -> BOOLEAN
    lock,         \* ParkingLot.lock: owner and recursion count of the RLock
    spot_index,   \* Vehicle.spot_index, per vehicle
    pc,           \* position of each thread
    op,           \* the operation a thread is calling
    veh,          \* self of the call
    arg,          \* the idx argument of yield_spot
    idx,          \* the local idx of request_spot
    ret,          \* the value the call returns
    msg,          \* the message the call printed
    entry,        \* spots and spot_index as they were when the thread entered
                  \* its critical section
    caller        \* the calling code of each thread: the vehicles it has still
                  \* to park, and what its last call was, returned and printed

vars == <<fleet, capacity, spots, lock, spot_index, pc, op, veh, arg, idx, ret, msg, entry, caller>>

Indices(cap) == 0..(cap - 1)
\* the idx arguments tried: every index of the lot and one on each side
IdxArgs(cap) == -1..cap

\* ---- pure helpers ----
RECURSIVE ScanSingle(_, _, _)
ScanSingle(s, cap, i) ==
    IF i >= cap THEN None
    ELSE IF ~s[i] THEN i
    ELSE ScanSingle(s, cap, i + 1)

\* mutation: the scan keeps the last free index instead of returning the first
_find_single_spot_last(s, cap) ==
    IF \A i \in Indices(cap) : s[i] THEN None
    ELSE CHOOSE i \in Indices(cap) : ~s[i] /\ \A j \in Indices(cap) : ~s[j] => j <= i

\* ParkingLot._find_single_spot
_find_single_spot(s, cap) == ScanSingle(s, cap, 0)

RECURSIVE ScanAdjacent(_, _, _)
ScanAdjacent(s, cap, i) ==
    IF i >= cap - 1 THEN None
    ELSE IF ~s[i] /\ ~s[i + 1] THEN i
    ELSE ScanAdjacent(s, cap, i + 1)

\* mutation: the scan tests spots[i] only
_find_adjacent_spots_first_only(s, cap) ==
    IF \A i \in 0..(cap - 2) : s[i] THEN None
    ELSE CHOOSE i \in 0..(cap - 2) : ~s[i] /\ \A j \in 0..(cap - 2) : ~s[j] => i <= j

\* mutation: the scan stops one index early, range(self.capacity - 2)
_find_adjacent_spots_short(s, cap) == ScanAdjacent(s, cap - 1, 0)

\* mutation: the truck's search is the car's search
_find_adjacent_spots_single(s, cap) == ScanSingle(s, cap, 0)

\* ParkingLot._find_adjacent_spots
_find_adjacent_spots(s, cap) == ScanAdjacent(s, cap, 0)

RECURSIVE SumSpots(_, _)
\* sum(self.spots) over the first n entries
SumSpots(s, n) == IF n <= 0 THEN 0 ELSE SumSpots(s, n - 1) + (IF s[n - 1] THEN 1 ELSE 0)

\* the dictionary built by get_availability
Availability(s, cap) ==
    [total |-> cap,
     occupied |-> SumSpots(s, cap),
     free |-> cap - SumSpots(s, cap),
     spots |-> [i \in Indices(cap) |-> IF s[i] THEN "X" ELSE "O"]]

\* mutation: the truck's range test uses the car's bound
InvalidTruckIndex_car_bound(a, cap) == a < 0 \/ a >= cap

\* the range test of yield_spot: Car line 106, Truck line 160
InvalidCarIndex(a, cap) == a < 0 \/ a >= cap
InvalidTruckIndex(a, cap) == a < 0 \/ a >= cap - 1
InvalidYieldIndex(v, a, cap) ==
    IF vehicle_type(v) = "CAR" THEN InvalidCarIndex(a, cap) ELSE InvalidTruckIndex(a, cap)

\* ---- the lock ----
\* mutation: acquire never blocks
LockNeverBlocks(t) == TRUE

\* RLock.acquire does not block when the lock is free or owned by the caller
LockAvailable(t) == lock.owner = NoThread \/ lock.owner = t

Snapshot == [spots |-> spots, spot_index |-> spot_index]
NoSnapshot == [spots |-> [i \in Indices(capacity) |-> FALSE],
               spot_index |-> [v \in fleet |-> None]]

\* a caller that has made no call and has no vehicle to park
NoCall == [todo |-> <<>>, op |-> "none", veh |-> NoVehicle, result |-> None, out |-> NoMessage]

\* ---- initial state: ParkingLot(capacity), then create_car / create_truck ----
Init ==
    /\ fleet = Fleet(NumCars, NumTrucks)
    /\ capacity \in 0..MaxCapacity
    /\ spots = [i \in Indices(capacity) |-> FALSE]
    /\ lock = [owner |-> NoThread, count |-> 0]
    /\ spot_index = [v \in fleet |-> None]
    /\ pc = [t \in Threads |-> "idle"]
    /\ op = [t \in Threads |-> "none"]
    /\ veh = [t \in Threads |-> NoVehicle]
    /\ arg = [t \in Threads |-> None]
    /\ idx = [t \in Threads |-> None]
    /\ ret = [t \in Threads |-> None]
    /\ msg = [t \in Threads |-> NoMessage]
    /\ entry = [t \in Threads |-> NoSnapshot]
    /\ caller = [t \in Threads |-> NoCall]

\* ---- a thread calls a public operation and reaches its `with lock` ----
Call(t) ==
    /\ pc[t] = "idle"
    /\ pc' = [pc EXCEPT ![t] = "acquire"]
    /\ UNCHANGED <<caller, fleet, capacity, spots, lock, spot_index, op, veh, arg, idx, ret, msg, entry>>

\* `with self.parking_lot.lock:` / `with self.lock:` entered, by one of
\* request_spot, yield_spot and get_availability
Acquire(t) ==
    /\ pc[t] = "acquire"
    /\ LockAvailable(t)
    /\ lock' = [owner |-> t, count |-> lock.count + 1]
    /\ entry' = [entry EXCEPT ![t] = Snapshot]
    /\ \/ /\ op' = [op EXCEPT ![t] = "request_spot"]
          /\ \E v \in fleet : veh' = [veh EXCEPT ![t] = v]
          /\ pc' = [pc EXCEPT ![t] = "request_check"]
          /\ UNCHANGED arg
       \/ /\ op' = [op EXCEPT ![t] = "yield_spot"]
          /\ \E v \in fleet : veh' = [veh EXCEPT ![t] = v]
          /\ \E a \in IdxArgs(capacity) : arg' = [arg EXCEPT ![t] = a]
          /\ pc' = [pc EXCEPT ![t] = "yield_range"]
       \/ /\ op' = [op EXCEPT ![t] = "get_availability"]
          /\ pc' = [pc EXCEPT ![t] = "availability"]
          /\ UNCHANGED <<veh, arg>>
    /\ UNCHANGED <<caller, fleet, capacity, spots, spot_index, idx, ret, msg>>

\* ---- request_spot ----
\* mutation: the already-parked test is missing
RequestCheck_unchecked(t) ==
    /\ pc[t] = "request_check"
    /\ pc' = [pc EXCEPT ![t] = "request_find"]
    /\ UNCHANGED <<caller, fleet, capacity, spots, lock, spot_index, op, veh, arg, idx, ret, msg, entry>>

\* mutation: the already-parked test is made in a critical section of its
\* own: the lock is given up after the test
RequestCheck_then_unlock(t) ==
    /\ pc[t] = "request_check"
    /\ IF spot_index[veh[t]] # None
       THEN /\ pc' = [pc EXCEPT ![t] = "release"]
            /\ msg' = [msg EXCEPT ![t] = AlreadyHeld]
            /\ ret' = [ret EXCEPT ![t] = None]
       ELSE /\ pc' = [pc EXCEPT ![t] = "request_find"]
            /\ UNCHANGED <<msg, ret>>
    /\ lock' = [owner |-> NoThread, count |-> 0]
    /\ UNCHANGED <<caller, fleet, capacity, spots, spot_index, op, veh, arg, idx, entry>>

\* `if self.spot_index is not None: print(...); return None`
RequestCheck(t) ==
    /\ pc[t] = "request_check"
    /\ IF spot_index[veh[t]] # None
       THEN /\ pc' = [pc EXCEPT ![t] = "release"]
            /\ msg' = [msg EXCEPT ![t] = AlreadyHeld]
            /\ ret' = [ret EXCEPT ![t] = None]
       ELSE /\ pc' = [pc EXCEPT ![t] = "request_find"]
            /\ UNCHANGED <<msg, ret>>
    /\ UNCHANGED <<caller, fleet, capacity, spots, lock, spot_index, op, veh, arg, idx, entry>>

\* mutation: the scan and the commit are two critical sections: the lock is
\* given up once the scan has returned
RequestFind_then_unlock(t) ==
    /\ pc[t] = "request_find"
    /\ LET found == IF vehicle_type(veh[t]) = "CAR"
                    THEN _find_single_spot(spots, capacity)
                    ELSE _find_adjacent_spots(spots, capacity)
       IN /\ idx' = [idx EXCEPT ![t] = found]
          /\ IF found # None
             THEN /\ pc' = [pc EXCEPT ![t] = "request_mark"]
                  /\ UNCHANGED ret
             ELSE /\ pc' = [pc EXCEPT ![t] = "release"]
                  /\ ret' = [ret EXCEPT ![t] = None]
    /\ lock' = [owner |-> NoThread, count |-> 0]
    /\ UNCHANGED <<caller, fleet, capacity, spots, spot_index, op, veh, arg, msg, entry>>

\* mutation: a request that finds no room waits, inside the critical section,
\* until there is room
RequestFind_waits(t) ==
    /\ pc[t] = "request_find"
    /\ LET found == IF vehicle_type(veh[t]) = "CAR"
                    THEN _find_single_spot(spots, capacity)
                    ELSE _find_adjacent_spots(spots, capacity)
       IN /\ found # None
          /\ idx' = [idx EXCEPT ![t] = found]
          /\ pc' = [pc EXCEPT ![t] = "request_mark"]
    /\ UNCHANGED <<caller, fleet, capacity, spots, lock, spot_index, op, veh, arg, ret, msg, entry>>

\* `idx = self.parking_lot._find_...()`, `if idx is not None`, else `return None`
RequestFind(t) ==
    /\ pc[t] = "request_find"
    /\ LET found == IF vehicle_type(veh[t]) = "CAR"
                    THEN _find_single_spot(spots, capacity)
                    ELSE _find_adjacent_spots(spots, capacity)
       IN /\ idx' = [idx EXCEPT ![t] = found]
          /\ IF found # None
             THEN /\ pc' = [pc EXCEPT ![t] = "request_mark"]
                  /\ UNCHANGED ret
             ELSE /\ pc' = [pc EXCEPT ![t] = "release"]
                  /\ ret' = [ret EXCEPT ![t] = None]
    /\ UNCHANGED <<caller, fleet, capacity, spots, lock, spot_index, op, veh, arg, msg, entry>>

\* `self.parking_lot.spots[idx] = True`
RequestMark(t) ==
    /\ pc[t] = "request_mark"
    /\ spots' = [spots EXCEPT ![idx[t]] = TRUE]
    /\ pc' = [pc EXCEPT ![t] = IF vehicle_type(veh[t]) = "CAR"
                                THEN "request_hold" ELSE "request_mark_next"]
    /\ UNCHANGED <<caller, fleet, capacity, lock, spot_index, op, veh, arg, idx, ret, msg, entry>>

\* Truck: `self.parking_lot.spots[idx + 1] = True`
RequestMarkNext(t) ==
    /\ pc[t] = "request_mark_next"
    /\ spots' = [spots EXCEPT ![idx[t] + 1] = TRUE]
    /\ pc' = [pc EXCEPT ![t] = "request_hold"]
    /\ UNCHANGED <<caller, fleet, capacity, lock, spot_index, op, veh, arg, idx, ret, msg, entry>>

\* mutation: a truck records its second spot
RequestHold_second_spot(t) ==
    /\ pc[t] = "request_hold"
    /\ LET held == IF vehicle_type(veh[t]) = "CAR" THEN idx[t] ELSE idx[t] + 1
       IN /\ spot_index' = [spot_index EXCEPT ![veh[t]] = held]
          /\ ret' = [ret EXCEPT ![t] = held]
    /\ pc' = [pc EXCEPT ![t] = "release"]
    /\ UNCHANGED <<caller, fleet, capacity, spots, lock, op, veh, arg, idx, msg, entry>>

\* `self.spot_index = idx; return idx`
RequestHold(t) ==
    /\ pc[t] = "request_hold"
    /\ pc' = [pc EXCEPT ![t] = "release"]
    /\ spot_index' = [spot_index EXCEPT ![veh[t]] = idx[t]]
    /\ ret' = [ret EXCEPT ![t] = idx[t]]
    /\ UNCHANGED <<caller, fleet, capacity, spots, lock, op, veh, arg, idx, msg, entry>>

\* ---- yield_spot ----
\* `if idx < 0 or idx >= capacity [- 1]: print(...); return False`
YieldRange(t) ==
    /\ pc[t] = "yield_range"
    /\ IF InvalidYieldIndex(veh[t], arg[t], capacity)
       THEN /\ pc' = [pc EXCEPT ![t] = "release"]
            /\ msg' = [msg EXCEPT ![t] = InvalidIndex]
            /\ ret' = [ret EXCEPT ![t] = FALSE]
       ELSE /\ pc' = [pc EXCEPT ![t] = "yield_held"]
            /\ UNCHANGED <<msg, ret>>
    /\ UNCHANGED <<caller, fleet, capacity, spots, lock, spot_index, op, veh, arg, idx, entry>>

\* mutation: the not-parked test is missing
YieldHeld_unchecked(t) ==
    /\ pc[t] = "yield_held"
    /\ pc' = [pc EXCEPT ![t] = "yield_match"]
    /\ UNCHANGED <<caller, fleet, capacity, spots, lock, spot_index, op, veh, arg, idx, ret, msg, entry>>

\* `if self.spot_index is None: print(...); return False`
YieldHeld(t) ==
    /\ pc[t] = "yield_held"
    /\ IF spot_index[veh[t]] = None
       THEN /\ pc' = [pc EXCEPT ![t] = "release"]
            /\ msg' = [msg EXCEPT ![t] = NotHeld]
            /\ ret' = [ret EXCEPT ![t] = FALSE]
       ELSE /\ pc' = [pc EXCEPT ![t] = "yield_match"]
            /\ UNCHANGED <<msg, ret>>
    /\ UNCHANGED <<caller, fleet, capacity, spots, lock, spot_index, op, veh, arg, idx, entry>>

\* mutation: the index comparison is missing
YieldMatch_unchecked(t) ==
    /\ pc[t] = "yield_match"
    /\ pc' = [pc EXCEPT ![t] = "yield_free"]
    /\ UNCHANGED <<caller, fleet, capacity, spots, lock, spot_index, op, veh, arg, idx, ret, msg, entry>>

\* mutation: the mismatch branch prints the not-parked message
YieldMatch_wrong_message(t) ==
    /\ pc[t] = "yield_match"
    /\ IF spot_index[veh[t]] # arg[t]
       THEN /\ pc' = [pc EXCEPT ![t] = "release"]
            /\ msg' = [msg EXCEPT ![t] = NotHeld]
            /\ ret' = [ret EXCEPT ![t] = FALSE]
       ELSE /\ pc' = [pc EXCEPT ![t] = "yield_free"]
            /\ UNCHANGED <<msg, ret>>
    /\ UNCHANGED <<caller, fleet, capacity, spots, lock, spot_index, op, veh, arg, idx, entry>>

\* `if self.spot_index != idx: print(...); return False`
YieldMatch(t) ==
    /\ pc[t] = "yield_match"
    /\ IF spot_index[veh[t]] # arg[t]
       THEN /\ pc' = [pc EXCEPT ![t] = "release"]
            /\ msg' = [msg EXCEPT ![t] = IndexMismatch]
            /\ ret' = [ret EXCEPT ![t] = FALSE]
       ELSE /\ pc' = [pc EXCEPT ![t] = "yield_free"]
            /\ UNCHANGED <<msg, ret>>
    /\ UNCHANGED <<caller, fleet, capacity, spots, lock, spot_index, op, veh, arg, idx, entry>>

\* `self.parking_lot.spots[idx] = False`
YieldFree(t) ==
    /\ pc[t] = "yield_free"
    /\ spots' = [spots EXCEPT ![arg[t]] = FALSE]
    /\ pc' = [pc EXCEPT ![t] = IF vehicle_type(veh[t]) = "CAR"
                                THEN "yield_clear" ELSE "yield_free_next"]
    /\ UNCHANGED <<caller, fleet, capacity, lock, spot_index, op, veh, arg, idx, ret, msg, entry>>

\* mutation: the truck's release clears the first spot only
YieldFreeNext_skipped(t) ==
    /\ pc[t] = "yield_free_next"
    /\ pc' = [pc EXCEPT ![t] = "yield_clear"]
    /\ UNCHANGED <<caller, fleet, capacity, spots, lock, spot_index, op, veh, arg, idx, ret, msg, entry>>

\* Truck: `self.parking_lot.spots[idx + 1] = False`
YieldFreeNext(t) ==
    /\ pc[t] = "yield_free_next"
    /\ spots' = [spots EXCEPT ![arg[t] + 1] = FALSE]
    /\ pc' = [pc EXCEPT ![t] = "yield_clear"]
    /\ UNCHANGED <<caller, fleet, capacity, lock, spot_index, op, veh, arg, idx, ret, msg, entry>>

\* mutation: the release forgets to reset spot_index
YieldClear_keeps_index(t) ==
    /\ pc[t] = "yield_clear"
    /\ pc' = [pc EXCEPT ![t] = "release"]
    /\ ret' = [ret EXCEPT ![t] = TRUE]
    /\ UNCHANGED <<caller, fleet, capacity, spots, lock, spot_index, op, veh, arg, idx, msg, entry>>

\* `self.spot_index = None; return True`
YieldClear(t) ==
    /\ pc[t] = "yield_clear"
    /\ pc' = [pc EXCEPT ![t] = "release"]
    /\ spot_index' = [spot_index EXCEPT ![veh[t]] = None]
    /\ ret' = [ret EXCEPT ![t] = TRUE]
    /\ UNCHANGED <<caller, fleet, capacity, spots, lock, op, veh, arg, idx, msg, entry>>

\* ---- get_availability ----
GetAvailability(t) ==
    /\ pc[t] = "availability"
    /\ pc' = [pc EXCEPT ![t] = "release"]
    /\ ret' = [ret EXCEPT ![t] = Availability(spots, capacity)]
    /\ UNCHANGED <<caller, fleet, capacity, spots, lock, spot_index, op, veh, arg, idx, msg, entry>>

\* ---- the `with` block is left: the lock is released and the call returns ----
Release(t) ==
    /\ pc[t] = "release"
    /\ lock' = IF lock.count <= 1
               THEN [owner |-> NoThread, count |-> 0]
               ELSE [lock EXCEPT !.count = lock.count - 1]
    /\ pc' = [pc EXCEPT ![t] = "idle"]
    /\ op' = [op EXCEPT ![t] = "none"]
    /\ veh' = [veh EXCEPT ![t] = NoVehicle]
    /\ arg' = [arg EXCEPT ![t] = None]
    /\ idx' = [idx EXCEPT ![t] = None]
    /\ ret' = [ret EXCEPT ![t] = None]
    /\ msg' = [msg EXCEPT ![t] = NoMessage]
    /\ entry' = [entry EXCEPT ![t] = NoSnapshot]
    /\ UNCHANGED <<caller, fleet, capacity, spots, spot_index>>

\* the same exit of the `with` block, seen with the caller: the caller now has
\* the returned value and the printed message, and is done with the vehicle
\* it was parking, if any
Return(t) ==
    /\ pc[t] = "release"
    /\ lock' = IF lock.count <= 1
               THEN [owner |-> NoThread, count |-> 0]
               ELSE [lock EXCEPT !.count = lock.count - 1]
    /\ caller' = [caller EXCEPT ![t] =
                     [todo |-> IF caller[t].todo = <<>> THEN <<>> ELSE Tail(caller[t].todo),
                      op |-> op[t], veh |-> veh[t], result |-> ret[t], out |-> msg[t]]]
    /\ pc' = [pc EXCEPT ![t] = "idle"]
    /\ op' = [op EXCEPT ![t] = "none"]
    /\ veh' = [veh EXCEPT ![t] = NoVehicle]
    /\ arg' = [arg EXCEPT ![t] = None]
    /\ idx' = [idx EXCEPT ![t] = None]
    /\ ret' = [ret EXCEPT ![t] = None]
    /\ msg' = [msg EXCEPT ![t] = NoMessage]
    /\ entry' = [entry EXCEPT ![t] = NoSnapshot]
    /\ UNCHANGED <<fleet, capacity, spots, spot_index>>

Next ==
    \E t \in Threads :
        \/ Call(t)
        \/ Acquire(t)
        \/ RequestCheck(t)
        \/ RequestFind(t)
        \/ RequestMark(t)
        \/ RequestMarkNext(t)
        \/ RequestHold(t)
        \/ YieldRange(t)
        \/ YieldHeld(t)
        \/ YieldMatch(t)
        \/ YieldFree(t)
        \/ YieldFreeNext(t)
        \/ YieldClear(t)
        \/ GetAvailability(t)
        \/ Release(t)

Spec == Init /\ [][Next]_vars

\* ---- the lot with callers that keep what their calls returned ----
\* a new lot of capacity cap with the vehicles fl, used by the threads thr,
\* where thread t has the vehicles todo[t] to park
NewLot(cap, fl, thr, todo) ==
    /\ fleet = fl
    /\ capacity = cap
    /\ spots = [i \in Indices(cap) |-> FALSE]
    /\ lock = [owner |-> NoThread, count |-> 0]
    /\ spot_index = [v \in fl |-> None]
    /\ pc = [t \in thr |-> "idle"]
    /\ op = [t \in thr |-> "none"]
    /\ veh = [t \in thr |-> NoVehicle]
    /\ arg = [t \in thr |-> None]
    /\ idx = [t \in thr |-> None]
    /\ ret = [t \in thr |-> None]
    /\ msg = [t \in thr |-> NoMessage]
    /\ entry = [t \in thr |-> NoSnapshot]
    /\ caller = [t \in thr |-> [NoCall EXCEPT !.todo = todo[t]]]

\* two callers, each free to call any operation on either vehicle
Callers == {1, 2}

InitCallers ==
    \E cap \in 0..CallerCapacity :
        NewLot(cap, Fleet(1, 1), Callers, [t \in Callers |-> <<>>])

NextCallers ==
    \E t \in Callers :
        \/ Call(t)
        \/ Acquire(t)
        \/ RequestCheck(t)
        \/ RequestFind(t)
        \/ RequestMark(t)
        \/ RequestMarkNext(t)
        \/ RequestHold(t)
        \/ YieldRange(t)
        \/ YieldHeld(t)
        \/ YieldMatch(t)
        \/ YieldFree(t)
        \/ YieldFreeNext(t)
        \/ YieldClear(t)
        \/ GetAvailability(t)
        \/ Return(t)

SpecCallers == InitCallers /\ [][NextCallers]_vars

\* ---- demonstrate_edge_cases, parts 3 and 4: one thread parks new vehicles
\* ---- one after the other
\* part 3: `lot2 = ParkingLot(3)` and `for i in range(5)`
FullLotCapacity == 3
FullLotCars == 5
\* part 4: `lot3 = ParkingLot(5)`, car1, car2 and car3, then the truck
AdjacentCapacity == 5
AdjacentCars == 3

MainThread == 1
FullLotScript == [i \in 1..FullLotCars |-> Car(i)]
AdjacentScript == [i \in 1..AdjacentCars |-> Car(i)] \o <<Truck(1)>>
Range(q) == {q[i] : i \in 1..Len(q)}

\* the next `lot.create_...().request_spot()` of the calling code: the
\* `with self.parking_lot.lock:` of request_spot is entered, self being the
\* vehicle just created; a thread whose call waits for the lock is a thread
\* for which this step is not enabled
ScriptAcquire(t) ==
    /\ pc[t] = "idle"
    /\ caller[t].todo # <<>>
    /\ LockAvailable(t)
    /\ lock' = [owner |-> t, count |-> lock.count + 1]
    /\ entry' = [entry EXCEPT ![t] = Snapshot]
    /\ op' = [op EXCEPT ![t] = "request_spot"]
    /\ veh' = [veh EXCEPT ![t] = Head(caller[t].todo)]
    /\ pc' = [pc EXCEPT ![t] = "request_check"]
    /\ UNCHANGED <<caller, fleet, capacity, spots, spot_index, arg, idx, ret, msg>>

\* a lot of any capacity up to the bound, with either script
InitSequential ==
    \E cap \in 0..MaxCapacity, script \in {FullLotScript, AdjacentScript} :
        NewLot(cap, Range(script), {MainThread}, [t \in {MainThread} |-> script])

NextSequential ==
    \E t \in {MainThread} :
        \/ ScriptAcquire(t)
        \/ RequestCheck(t)
        \/ RequestFind(t)
        \/ RequestMark(t)
        \/ RequestMarkNext(t)
        \/ RequestHold(t)
        \/ Return(t)

SpecSequential == InitSequential /\ [][NextSequential]_vars

\* ---- demonstrate_thread_safety: `lot = ParkingLot(20)` and three threads,
\* ---- park_cars(5), park_trucks(3) and park_cars(5), each parking its new
\* ---- vehicles one after the other
DemoCapacity == 20
DemoCars == 5
DemoTrucks == 3

DemoThreads == {1, 2, 3}
DemoScript(t) ==
    IF t = 1 THEN [i \in 1..DemoCars |-> Car(i)]
    ELSE IF t = 2 THEN [i \in 1..DemoTrucks |-> Truck(i)]
    ELSE [i \in 1..DemoCars |-> Car(DemoCars + i)]

\* the spots the demo's vehicles need together
DemoDemand == 2 * DemoCars + 2 * DemoTrucks

\* the demo's lot, and the smallest lot that has room for all its vehicles
InitThreadDemo ==
    \E cap \in {DemoDemand, DemoCapacity} :
        NewLot(cap, UNION {Range(DemoScript(t)) : t \in DemoThreads},
               DemoThreads, [t \in DemoThreads |-> DemoScript(t)])

NextThreadDemo ==
    \E t \in DemoThreads :
        \/ ScriptAcquire(t)
        \/ RequestCheck(t)
        \/ RequestFind(t)
        \/ RequestMark(t)
        \/ RequestMarkNext(t)
        \/ RequestHold(t)
        \/ Return(t)

SpecThreadDemo == InitThreadDemo /\ [][NextThreadDemo]_vars

\* ---- the lot under a fair lock ----
\* what a thread does between acquiring the lock and returning
Proceed(t) ==
    \/ RequestCheck(t)
    \/ RequestFind(t)
    \/ RequestMark(t)
    \/ RequestMarkNext(t)
    \/ RequestHold(t)
    \/ YieldRange(t)
    \/ YieldHeld(t)
    \/ YieldMatch(t)
    \/ YieldFree(t)
    \/ YieldFreeNext(t)
    \/ YieldClear(t)
    \/ GetAvailability(t)
    \/ Release(t)

InitFair ==
    \E cap \in 0..FairCapacity :
        NewLot(cap, Fleet(1, 1), Threads, [t \in Threads |-> <<>>])

\* a running thread keeps running, and a thread that waits for a lock that
\* is free again and again gets it; each of these steps moves the thread
FairSpec ==
    /\ InitFair
    /\ [][Next]_vars
    /\ \A t \in Threads : WF_pc(Proceed(t)) /\ SF_pc(Acquire(t))

\* ---- vocabulary of the properties ----
InCritical(t) == pc[t] \notin {"idle", "acquire"}
Returning(t, o) == pc[t] = "release" /\ op[t] = o
Held(v) == spot_index[v] # None
Cars == {v \in fleet : vehicle_type(v) = "CAR"}
Trucks == {v \in fleet : vehicle_type(v) = "TRUCK"}
\* the spots a vehicle occupies according to the spot_index map si
SpotSet(v, si) ==
    IF si[v] = None THEN {}
    ELSE IF vehicle_type(v) = "CAR" THEN {si[v]} ELSE {si[v], si[v] + 1}
Occupied(s, cap) == {i \in Indices(cap) : s[i]}
FreeSingles(s, cap) == {i \in Indices(cap) : ~s[i]}
FreePairs(s, cap) == {i \in 0..(cap - 2) : ~s[i] /\ ~s[i + 1]}
FreeStarts(v, s, cap) == IF v \in Cars THEN FreeSingles(s, cap) ELSE FreePairs(s, cap)
Least(S) == CHOOSE i \in S : \A j \in S : i <= j
HeldWeight == Cardinality({v \in Cars : Held(v)}) + 2 * Cardinality({v \in Trucks : Held(v)})
NothingChanged(t) == spots = entry[t].spots /\ spot_index = entry[t].spot_index

\* C1 (no-overlap): in every reachable state the spot sets of any two
\* distinct held vehicles are disjoint.
NoOverlap ==
    \A v, w \in fleet :
        v # w => SpotSet(v, spot_index) \cap SpotSet(w, spot_index) = {}

\* a truck and a car hold spots, one thread is about to record the spot it
\* marked for another car, and another thread waits for the lock
NoOverlapWitness ==
    /\ \E k \in Trucks : Held(k)
    /\ \E c \in Cars : Held(c)
    /\ \E t, u \in Threads :
          /\ pc[t] = "request_hold"
          /\ vehicle_type(veh[t]) = "CAR"
          /\ pc[u] = "acquire"

\* C2 (conservation): whenever the lot lock is free, and in every
\* get_availability result, the number of occupied spots is the number of
\* held cars plus twice the number of held trucks, and the occupied indices
\* are exactly the union of the held vehicles' spot sets.
Conservation ==
    /\ lock.owner = NoThread =>
          /\ Cardinality(Occupied(spots, capacity)) = HeldWeight
          /\ Occupied(spots, capacity) = UNION {SpotSet(v, spot_index) : v \in fleet}
    /\ \A t \in Threads :
          Returning(t, "get_availability") =>
              /\ ret[t].occupied = HeldWeight
              /\ ret[t].free = capacity - HeldWeight
              /\ {i \in Indices(capacity) : ret[t].spots[i] = "X"}
                     = UNION {SpotSet(v, spot_index) : v \in fleet}

\* get_availability reports a lot in which a truck and a car are parked
ConservationWitness ==
    \E t \in Threads :
        /\ Returning(t, "get_availability")
        /\ ret[t].occupied = 3
        /\ \E k \in Trucks : Held(k)

\* C3 (mutual exclusion): at most one thread is inside a lock-protected
\* section, and a thread that is at a statement of such a section holds the
\* lot's lock.
MutualExclusion ==
    /\ \A t, u \in Threads : InCritical(t) /\ InCritical(u) => t = u
    /\ \A t \in Threads : InCritical(t) => lock.owner = t /\ lock.count = 1

\* one thread is between the two writes of a truck's commit while the other
\* thread waits at the lock
MutualExclusionWitness ==
    \E t, u \in Threads :
        /\ pc[t] = "request_mark_next"
        /\ pc[u] = "acquire"

\* the calls executed atomically on the state e, as a specification
AtomicRequest(v, e, cap) ==
    IF e.spot_index[v] # None \/ FreeStarts(v, e.spots, cap) = {}
    THEN [spots |-> e.spots, spot_index |-> e.spot_index, ret |-> None]
    ELSE LET i == Least(FreeStarts(v, e.spots, cap))
         IN [spots |-> [j \in Indices(cap) |->
                           IF j = i \/ (v \in Trucks /\ j = i + 1) THEN TRUE ELSE e.spots[j]],
             spot_index |-> [e.spot_index EXCEPT ![v] = i],
             ret |-> i]
AtomicYield(v, a, e, cap) ==
    IF e.spot_index[v] = None \/ e.spot_index[v] # a
       \/ a \notin (IF v \in Cars THEN 0..(cap - 1) ELSE 0..(cap - 2))
    THEN [spots |-> e.spots, spot_index |-> e.spot_index, ret |-> FALSE]
    ELSE [spots |-> [j \in Indices(cap) |->
                        IF j = a \/ (v \in Trucks /\ j = a + 1) THEN FALSE ELSE e.spots[j]],
          spot_index |-> [e.spot_index EXCEPT ![v] = None],
          ret |-> TRUE]
AtomicAvailability(e, cap) ==
    [spots |-> e.spots, spot_index |-> e.spot_index,
     ret |-> [total |-> cap,
              occupied |-> Cardinality(Occupied(e.spots, cap)),
              free |-> Cardinality(FreeSingles(e.spots, cap)),
              spots |-> [i \in Indices(cap) |-> IF e.spots[i] THEN "X" ELSE "O"]]]
AtomicCall(t) ==
    IF op[t] = "request_spot" THEN AtomicRequest(veh[t], entry[t], capacity)
    ELSE IF op[t] = "yield_spot" THEN AtomicYield(veh[t], arg[t], entry[t], capacity)
    ELSE AtomicAvailability(entry[t], capacity)

\* C4 (linearizability): when a call returns, its return value and the
\* spots / spot_index state are those of executing the call atomically on the
\* state in which it acquired the lock; no other thread changes spots or
\* spot_index between a call's acquisition of the lock and its return.
Linearizable ==
    \A t \in Threads :
        pc[t] = "release" =>
            [spots |-> spots, spot_index |-> spot_index, ret |-> ret[t]] = AtomicCall(t)

\* a car's request returns an index while another thread waits for the lock
LinearizableWitness ==
    \E t, u \in Threads :
        /\ Returning(t, "request_spot")
        /\ veh[t] \in Cars
        /\ ret[t] = 1
        /\ pc[u] = "acquire"

\* C5 (pair atomicity): while exactly one of the two entries of a truck's
\* commit or release has been written, no other thread is at a statement
\* that reads spots or spot_index.
PairAtomicity ==
    \A t, u \in Threads :
        pc[t] \in {"request_mark_next", "yield_free_next"} /\ u # t
            => pc[u] \in {"idle", "acquire"}

\* a truck's release has cleared the first entry only, and another thread
\* waits for the lock
PairAtomicityWitness ==
    \E t, u \in Threads :
        /\ pc[t] = "yield_free_next"
        /\ ~spots[arg[t]] /\ spots[arg[t] + 1]
        /\ pc[u] = "acquire"

\* C6 (first-fit): a successful request_spot by an unheld car returns the
\* lowest free index, and a successful request_spot by an unheld truck
\* returns the lowest index whose spot and right neighbour are both free.
FirstFit ==
    \A t \in Threads :
        (/\ Returning(t, "request_spot")
         /\ entry[t].spot_index[veh[t]] = None
         /\ ret[t] # None)
        => /\ ret[t] \in FreeStarts(veh[t], entry[t].spots, capacity)
           /\ \A j \in FreeStarts(veh[t], entry[t].spots, capacity) : ret[t] <= j

\* capacity 5 and spots [True, False, True, False, False]: the truck gets 3
FirstFitWitness ==
    \E t \in Threads :
        /\ Returning(t, "request_spot")
        /\ capacity = 5
        /\ Occupied(entry[t].spots, capacity) = {0, 2}
        /\ veh[t] \in Trucks
        /\ ret[t] = 3

\* C7 (fragmentation): a request_spot by an unheld truck returns None exactly
\* when no two adjacent spots are free, a request_spot by an unheld car
\* returns None exactly when every spot is occupied, and a failed request
\* leaves spots and every spot_index unchanged.
Fragmentation ==
    \A t \in Threads :
        (Returning(t, "request_spot") /\ entry[t].spot_index[veh[t]] = None)
        => /\ ret[t] = None <=>
                 IF veh[t] \in Trucks
                 THEN ~\E i \in 0..(capacity - 2) : ~entry[t].spots[i] /\ ~entry[t].spots[i + 1]
                 ELSE \A i \in Indices(capacity) : entry[t].spots[i]
           /\ ret[t] = None => NothingChanged(t) /\ msg[t] = NoMessage

\* capacity 4, cars held at 0 and 2: two spots are free and the truck's
\* request fails
FragmentationWitness ==
    \E t \in Threads :
        /\ Returning(t, "request_spot")
        /\ veh[t] \in Trucks
        /\ capacity = 4
        /\ {spot_index[c] : c \in Cars} = {0, 2}
        /\ Cardinality(FreeSingles(spots, capacity)) = 2
        /\ ret[t] = None

\* C8 (double-request rejection): request_spot on a vehicle whose spot_index
\* is not None returns None with the already-parked message and leaves spots
\* and every spot_index unchanged.
DoubleRequestRejected ==
    \A t \in Threads :
        (Returning(t, "request_spot") /\ entry[t].spot_index[veh[t]] # None)
        => /\ ret[t] = None
           /\ msg[t] = AlreadyHeld
           /\ NothingChanged(t)

\* a held truck requests again while three spots are free
DoubleRequestWitness ==
    \E t \in Threads :
        /\ Returning(t, "request_spot")
        /\ veh[t] \in Trucks
        /\ Held(veh[t])
        /\ msg[t] = AlreadyHeld
        /\ Cardinality(FreeSingles(spots, capacity)) = 3

\* C9 as stated: for every index argument, yield_spot on a vehicle whose
\* spot_index is None fails with NotHeld and changes no entry of spots.
UnheldYieldAlwaysNotHeld ==
    \A t \in Threads :
        (Returning(t, "yield_spot") /\ entry[t].spot_index[veh[t]] = None)
        => /\ ret[t] = FALSE
           /\ msg[t] = NotHeld
           /\ spots = entry[t].spots

\* C9 (amended): yield_spot on a vehicle whose spot_index is None returns
\* False and changes no entry of spots, for every index argument; the reason
\* is NotHeld when the index is in the valid range of the vehicle's kind and
\* InvalidIndex when it is not.
UnheldYieldRejected ==
    \A t \in Threads :
        (Returning(t, "yield_spot") /\ entry[t].spot_index[veh[t]] = None)
        => /\ ret[t] = FALSE
           /\ spots = entry[t].spots
           /\ msg[t] = IF arg[t] \in (IF veh[t] \in Cars THEN 0..(capacity - 1)
                                                        ELSE 0..(capacity - 2))
                       THEN NotHeld ELSE InvalidIndex

\* an unheld car yields an index that another car occupies
UnheldYieldWitness ==
    \E t \in Threads :
        /\ Returning(t, "yield_spot")
        /\ veh[t] \in Cars
        /\ ~Held(veh[t])
        /\ msg[t] = NotHeld
        /\ spots[arg[t]]

\* C10 (index-range boundary): Truck.yield_spot(idx) fails with InvalidIndex
\* and changes nothing whenever idx < 0 or idx >= capacity - 1, Car.yield_spot
\* does whenever idx < 0 or idx >= capacity, no index inside the range is
\* rejected as InvalidIndex, and the truck's second write stays in range.
IndexRangeBoundary ==
    \A t \in Threads :
        /\ Returning(t, "yield_spot") =>
              IF arg[t] < 0 \/ arg[t] >= (IF veh[t] \in Trucks THEN capacity - 1 ELSE capacity)
              THEN ret[t] = FALSE /\ msg[t] = InvalidIndex /\ NothingChanged(t)
              ELSE msg[t] # InvalidIndex
        /\ pc[t] = "yield_free_next" => arg[t] + 1 \in Indices(capacity)

\* capacity 5: a truck parked at 3 yields index 4
IndexRangeWitness ==
    \E t \in Threads :
        /\ Returning(t, "yield_spot")
        /\ capacity = 5
        /\ veh[t] \in Trucks
        /\ spot_index[veh[t]] = 3
        /\ arg[t] = 4
        /\ msg[t] = InvalidIndex

ValidStarts(v, cap) == IF vehicle_type(v) = "CAR" THEN 0..(cap - 1) ELSE 0..(cap - 2)

\* C11 (index mismatch): yield_spot(idx) on a held vehicle with an in-range
\* idx different from its spot_index returns False with the mismatch message
\* and leaves spots and every spot_index unchanged; the spots a yield clears
\* are always those of the yielding vehicle itself.
IndexMismatchRejected ==
    \A t \in Threads :
        /\ (/\ Returning(t, "yield_spot")
            /\ entry[t].spot_index[veh[t]] # None
            /\ arg[t] \in ValidStarts(veh[t], capacity)
            /\ arg[t] # entry[t].spot_index[veh[t]])
           => ret[t] = FALSE /\ msg[t] = IndexMismatch /\ NothingChanged(t)
        /\ pc[t] \in {"yield_free", "yield_free_next", "yield_clear"}
           => /\ spot_index[veh[t]] = arg[t]
              /\ \A w \in fleet \ {veh[t]} :
                    SpotSet(w, spot_index) \cap SpotSet(veh[t], spot_index) = {}

\* a held car yields the index at which a truck is parked
IndexMismatchWitness ==
    \E t \in Threads :
        /\ Returning(t, "yield_spot")
        /\ veh[t] \in Cars
        /\ Held(veh[t])
        /\ msg[t] = IndexMismatch
        /\ \E k \in Trucks : spot_index[k] = arg[t]

\* C12 (successful yield): yield_spot(idx) on a vehicle whose spot_index is
\* idx returns True, clears spots[idx] (and spots[idx+1] for a truck), sets the
\* vehicle's spot_index to None and changes nothing else; a vehicle whose
\* spot_index is None is never refused as already parked, so it can request
\* again.
SuccessfulYield ==
    \A t \in Threads :
        /\ (Returning(t, "yield_spot") /\ entry[t].spot_index[veh[t]] = arg[t])
           => /\ ret[t] = TRUE
              /\ msg[t] = NoMessage
              /\ spot_index = [entry[t].spot_index EXCEPT ![veh[t]] = None]
              /\ \A i \in Indices(capacity) :
                    spots[i] = IF i \in SpotSet(veh[t], entry[t].spot_index)
                               THEN FALSE ELSE entry[t].spots[i]
        /\ (Returning(t, "request_spot") /\ entry[t].spot_index[veh[t]] = None)
           => msg[t] # AlreadyHeld

\* a truck has yielded its two spots while a car stays parked
SuccessfulYieldWitness ==
    \E t \in Threads :
        /\ Returning(t, "yield_spot")
        /\ veh[t] \in Trucks
        /\ ret[t] = TRUE
        /\ ~spots[arg[t]] /\ ~spots[arg[t] + 1]
        /\ \E c \in Cars : Held(c)

\* every held index is a valid start for the vehicle's kind and its spots are
\* marked occupied
HeldIndicesValid ==
    \A v \in fleet :
        Held(v) => /\ spot_index[v] \in ValidStarts(v, capacity)
                   /\ \A i \in SpotSet(v, spot_index) : spots[i]

\* a spot_index changes only in the last statement of a successful
\* request_spot or yield_spot of a thread whose self is that vehicle
OwnCallsOnly ==
    \A v \in fleet :
        spot_index'[v] # spot_index[v] =>
            \E t \in Threads :
                /\ veh[t] = v
                /\ pc'[t] = "release"
                /\ \/ /\ op[t] = "request_spot"
                      /\ spot_index[v] = None
                      /\ ret'[t] = spot_index'[v]
                   \/ /\ op[t] = "yield_spot"
                      /\ spot_index[v] = arg[t]
                      /\ spot_index'[v] = None
                      /\ ret'[t] = TRUE

\* C14 (held-index validity): whenever the lock is free, each car's
\* spot_index is None or an index in [0, capacity-1] whose spot is occupied
\* and each truck's is None or an index in [0, capacity-2] whose two spots are
\* occupied; a spot_index goes from None to an index only by the vehicle's
\* own successful request_spot and back to None only by its own successful
\* yield_spot.
HeldIndexValidity ==
    /\ [](lock.owner = NoThread => HeldIndicesValid)
    /\ [][OwnCallsOnly]_vars

\* the lock is free and a truck is parked on the last two spots
HeldIndexWitness ==
    /\ lock.owner = NoThread
    /\ capacity >= 4
    /\ \E k \in Trucks : spot_index[k] = capacity - 2
    /\ \E c \in Cars : Held(c)

\* C18 (degenerate capacity): in a lot of capacity 0 or 1 every
\* Truck.request_spot returns None without a message, without marking a spot
\* and without changing anything, and every Truck.yield_spot returns False;
\* in a lot of capacity 0 every Car.request_spot returns None too.
DegenerateCapacity ==
    capacity <= 1 =>
        \A t \in Threads :
            /\ InCritical(t) /\ veh[t] \in Trucks
               => /\ pc[t] \notin {"request_mark", "request_mark_next", "request_hold",
                                   "yield_free", "yield_free_next", "yield_clear"}
                  /\ spot_index[veh[t]] = None
            /\ Returning(t, "request_spot") /\ veh[t] \in Trucks
               => ret[t] = None /\ msg[t] = NoMessage /\ NothingChanged(t)
            /\ Returning(t, "yield_spot") /\ veh[t] \in Trucks
               => ret[t] = FALSE /\ NothingChanged(t)
            /\ Returning(t, "request_spot") /\ veh[t] \in Cars /\ capacity = 0
               => ret[t] = None /\ msg[t] = NoMessage /\ NothingChanged(t)

\* capacity 1 with its only spot free: the truck's request returns None
DegenerateCapacityWitness ==
    \E t \in Threads :
        /\ capacity = 1
        /\ Returning(t, "request_spot")
        /\ veh[t] \in Trucks
        /\ ~spots[0]
        /\ ret[t] = None

\* a call that failed, as its caller sees it
CallFailed(c) ==
    IF c.op = "request_spot" THEN c.result = None
    ELSE IF c.op = "yield_spot" THEN c.result = FALSE
    ELSE FALSE

SharedHandleSafety ==
    /\ \A t \in Callers :
          /\ (Returning(t, "request_spot") /\ ret[t] # None)
             => /\ entry[t].spot_index[veh[t]] = None
                /\ spot_index[veh[t]] = ret[t]
          /\ (Returning(t, "yield_spot") /\ ret[t] = TRUE)
             => /\ entry[t].spot_index[veh[t]] = arg[t]
                /\ spot_index[veh[t]] = None
    /\ lock.owner = NoThread =>
          /\ \A i \in Occupied(spots, capacity) :
                \E v \in fleet : i \in SpotSet(v, spot_index)
          /\ Cardinality(Occupied(spots, capacity)) = HeldWeight

\* one caller parked a car; the other caller's request on the same car is
\* refused, and the car stays where the first caller parked it
SharedHandleWitness ==
    \E t, u \in Callers :
        /\ t # u
        /\ caller[t].op = "request_spot"
        /\ caller[t].result # None
        /\ Returning(u, "request_spot")
        /\ veh[u] = caller[t].veh
        /\ veh[u] \in Cars
        /\ msg[u] = AlreadyHeld
        /\ spot_index[veh[u]] = caller[t].result

\* the number of calls the main thread has completed
CallsDone == Cardinality(fleet) - Len(caller[MainThread].todo)

\* C16 (full lot): on a fresh lot of capacity N, successive request_spot
\* calls by distinct new cars return 0, 1, ..., N-1 in this order and then
\* None; of 5 calls on a lot of capacity 3 exactly 3 succeed, then 2 fail.
FullLot ==
    /\ (/\ Returning(MainThread, "request_spot")
        /\ veh[MainThread] \in Cars
        /\ CallsDone < Cardinality(Cars))
       => /\ ret[MainThread] = IF CallsDone < capacity THEN CallsDone ELSE None
          /\ msg[MainThread] = NoMessage
    /\ (caller[MainThread].todo = <<>> /\ fleet = Range(FullLotScript))
       => /\ \A i \in 1..FullLotCars :
                spot_index[Car(i)] = IF i <= capacity THEN i - 1 ELSE None
          /\ capacity < FullLotCars => caller[MainThread].result = None

\* capacity 3, the five calls are over: cars 1 to 3 are parked at 0, 1 and 2,
\* cars 4 and 5 are not parked
FullLotWitness ==
    /\ capacity = FullLotCapacity
    /\ fleet = Range(FullLotScript)
    /\ caller[MainThread].todo = <<>>
    /\ caller[MainThread].result = None
    /\ {v \in fleet : Held(v)} = {Car(1), Car(2), Car(3)}

\* C19 as stated: on a fresh lot of capacity 5 the three cars are parked at
\* positions 0, 2 and 4 and the truck's request then returns None.
AdjacentDemoAsCommented ==
    (/\ capacity = AdjacentCapacity
     /\ fleet = Range(AdjacentScript)
     /\ caller[MainThread].todo = <<>>)
    => /\ {spot_index[Car(i)] : i \in 1..AdjacentCars} = {0, 2, 4}
       /\ caller[MainThread].result = None

\* what the calls of part 4 do: the cars are parked at 0, 1 and 2 and the
\* truck at 3
AdjacentDemoOutcome ==
    (/\ capacity = AdjacentCapacity
     /\ fleet = Range(AdjacentScript)
     /\ caller[MainThread].todo = <<>>)
    => /\ \A i \in 1..AdjacentCars : spot_index[Car(i)] = i - 1
       /\ caller[MainThread].result = 3
       /\ spot_index[Truck(1)] = 3

\* C15 (concurrent requests only): when three threads park 10 new cars and 3
\* new trucks concurrently, without yields, on a lot that has room for all of
\* them (capacity 20, or just 16), every request succeeds, the occupied spots
\* always are the first spots of the lot, their number is the number of
\* parked cars plus twice the number of parked trucks whenever the lock is
\* free, and it is 16 when all threads are done.
ThreadDemoAllPark ==
    /\ \A t \in DemoThreads :
          Returning(t, "request_spot") => ret[t] # None /\ msg[t] = NoMessage
    /\ \A i \in Occupied(spots, capacity) : \A j \in 0..i : spots[j]
    /\ lock.owner = NoThread => SumSpots(spots, capacity) = HeldWeight
    /\ (\A t \in DemoThreads : pc[t] = "idle" /\ caller[t].todo = <<>>)
       => /\ Availability(spots, capacity).occupied = DemoDemand
          /\ \A v \in fleet : Held(v)

\* the demo's lot when all threads are done, the second thread of cars having
\* parked its first car before the first thread did, and a truck between cars
ThreadDemoWitness ==
    /\ capacity = DemoCapacity
    /\ \A t \in DemoThreads : pc[t] = "idle" /\ caller[t].todo = <<>>
    /\ spot_index[Car(DemoCars + 1)] < spot_index[Car(1)]
    /\ spot_index[Truck(1)] = 1
    /\ Cardinality(Occupied(spots, capacity)) = 16

\* C17 (termination and deadlock-freedom): under a fair lock every call that
\* has reached its `with` block eventually returns with the lock released by
\* it, also when the lot has no room; a request that finds no room goes on to
\* return instead of waiting; some thread can always take a step; whenever a
\* thread waits for the lock, the lock is free or its owner is inside a
\* critical section and is another thread.
Termination ==
    /\ \A t \in Threads :
          (pc[t] = "acquire") ~> (pc[t] = "idle" /\ lock.owner # t)
    /\ \A t \in Threads :
          (InCritical(t) /\ op[t] = "request_spot"
              /\ FreeStarts(veh[t], spots, capacity) = {})
          ~> (pc[t] = "release")
    /\ [](\E t \in Threads : pc[t] # "acquire" \/ LockAvailable(t))
    /\ [](\A t \in Threads :
             pc[t] = "acquire" =>
                 /\ lock.owner # t
                 /\ lock.owner # NoThread => InCritical(lock.owner))

\* a thread waits for the lock while another one, which owns it, is about to
\* return None from a request on a full lot
TerminationWitness ==
    \E t, u \in Threads :
        /\ pc[t] = "acquire"
        /\ lock.owner = u
        /\ Returning(u, "request_spot")
        /\ capacity = 2
        /\ Occupied(spots, capacity) = {0, 1}
        /\ spot_index[veh[u]] = None
        /\ ret[u] = None

====
